---- MODULE Spec2Model ----
(***************************************************************************)
(* A model of src-tauri/src/version_manager.rs of the BYM Refitted         *)
(* launcher: the resolution of the remote version manifest with its        *)
(* https -> http fallback (get_version_info), the selection of the         *)
(* platform's flash runtime, the operations on the downloaded build files *)
(* (download_swfs, do_all_swfs_exist), the local layout                    *)
(* (local_files_status) and the download of a runtime (download_runtimes). *)
(*                                                                         *)
(* Every await of the code is a point where the caller is suspended and    *)
(* the collaborator (reqwest, download_file) answers: one action issues    *)
(* the request, the next one takes the answer and runs the code up to the  *)
(* following await or to the return.                                       *)
(***************************************************************************)
EXTENDS Integers, Sequences, FiniteSets, TLC

VARIABLES
    pc,            \* where the single caller stands
    https_worked,  \* get_version_info: the local `https_worked`
    fetches,       \* get_version_info: the URLs given to reqwest::get, in order
    events,        \* the messages given to emit_event, in order
    answers,       \* what reqwest::get answered to each of `fetches`, in order
    resp,          \* get_version_info: the response bound to `resp`
    body,          \* get_version_info: what resp.text() gave
    result,        \* the value the running operation returned
    sel,           \* the last call of get_platform_flash_runtime and its value
    fs,            \* the paths file_exists answers true for
    call,          \* the running operation and its arguments
    idx,           \* download_swfs: position in builds_to_check (1..3)
    dlCalls,       \* the calls of download_file, in order
    dlAnswers,     \* what download_file answered to each of `dlCalls`, in order
    trace,         \* get_version_info: its fetches, their answers and its
                   \* notifications, in the order of the code
    fs0,           \* download_swfs: the file system when it was called
    dirs,          \* the directories there are
    dirs0,         \* local_files_status: the directories when it was called
    sysCalls,      \* local_files_status: its calls of file_manager, in order
    sysAnswers     \* what file_manager answered to each of `sysCalls`, in order

vars == <<pc, https_worked, fetches, answers, events, resp, body, result, sel,
          fs, call, idx, dlCalls, dlAnswers, trace, fs0, dirs, dirs0, sysCalls,
          sysAnswers>>

resolveVars == <<https_worked, fetches, answers, events, resp, body, sel, trace>>
fileVars == <<fs, idx, dlCalls, dlAnswers, fs0>>
localVars == <<dirs, dirs0, sysCalls, sysAnswers>>

-----------------------------------------------------------------------------
(* Program constants *)

VERSION_INFO_PATH_BASE == "api.bymrefitted.com/launcher.json"
DOWNLOADS_FOLDER == "bymr-downloads"
BUILD_FOLDER == "bymr-downloads/swfs"
RUNTIME_FOLDER == "bymr-downloads/runtimes"

HttpsUrl == "https://" \o VERSION_INFO_PATH_BASE
HttpUrl == "http://" \o VERSION_INFO_PATH_BASE

-----------------------------------------------------------------------------
(* Bounds and the inputs drawn from them *)

MaxVersions == 2

VersionPool == <<"1.2.3", "", "1.2.4", "2.0.0">>

Versions == {VersionPool[n] : n \in 1..MaxVersions}

\* Status codes a reached server may answer with.
Statuses == {200, 204, 304, 404, 500}

\* The errors reqwest::get may fail with: status() is None (0 here) for every
\* connection-level failure; source() is the underlying cause, when there is one.
ConnErrors ==
    { [msg |-> "error sending request", status |-> 0, source |-> "ConnectError"],
      [msg |-> "operation timed out", status |-> 0, source |-> "None"] }

\* The error resp.text() may fail with while reading the body.
BodyReadError == "error decoding response body"

-----------------------------------------------------------------------------
(* JSON documents, as far as serde_json::from_str::<VersionManifest> looks   *)
(* at them: a scalar is its type and its text, an object maps its keys to    *)
(* scalars (builds, flashRuntimes) or to scalars and objects (the document). *)

JStr(s) == [t |-> "str", s |-> s]
JBool(b) == [t |-> "bool", s |-> IF b THEN "true" ELSE "false"]
JNull == [t |-> "null", s |-> "null"]

TopKeys == {"currentGameVersion", "currentLauncherVersion", "builds",
            "flashRuntimes", "httpsWorked"}
BuildKeys == {"stable", "http", "local"}
RuntimeKeys == {"windows", "darwin", "linux"}

Without(f, keys) == [k \in (DOMAIN f) \ keys |-> f[k]]

\* The document the endpoint serves for game version v, with an httpsWorked
\* member of value hw.
FullDoc(v, hw) ==
    [ currentGameVersion |-> JStr(v),
      currentLauncherVersion |-> JStr("0.3.1"),
      builds |-> [ stable |-> JStr("stable-" \o v \o ".swf"),
                   http |-> JStr("http-" \o v \o ".swf"),
                   local |-> JStr("") ],
      flashRuntimes |-> [ windows |-> JStr("flashplayer.exe"),
                          darwin |-> JStr("flashplayer.dmg"),
                          linux |-> JStr("flashplayer-" \o v \o ".tar.gz") ],
      httpsWorked |-> JBool(hw) ]

\* The same document with an unknown member added.
WithExtra(d) ==
    [k \in (DOMAIN d) \cup {"motd"} |-> IF k = "motd" THEN JStr("hello") ELSE d[k]]

\* The document with some members of the nested objects left out or null.
WithBuilds(d, b) == [d EXCEPT !.builds = b]
WithRuntimes(d, r) == [d EXCEPT !.flashRuntimes = r]

DocsOf(d) ==
    {d, WithExtra(d)}
    \cup {Without(d, {k}) : k \in TopKeys}
    \cup {WithBuilds(d, Without(d.builds, {k})) : k \in BuildKeys}
    \cup {WithRuntimes(d, Without(d.flashRuntimes, {k})) : k \in RuntimeKeys}
    \cup {WithBuilds(d, [d.builds EXCEPT ![k] = JNull]) : k \in BuildKeys}
    \cup {[d EXCEPT !.httpsWorked = JStr("yes")]}
    \cup {[d EXCEPT !.currentGameVersion = JNull]}

Docs == UNION {DocsOf(FullDoc(v, hw)) : v \in Versions, hw \in BOOLEAN}

\* A body is a JSON document or text that is no JSON at all.
NotJson == [json |-> FALSE]
Bodies == {[json |-> TRUE, doc |-> d] : d \in Docs} \cup {NotJson}

-----------------------------------------------------------------------------
(* Values *)

Ok(v) == [kind |-> "Ok", value |-> v]
Err(e) == [kind |-> "Err", error |-> e]
None == [kind |-> "None"]

\* What reqwest::get answers: a response of a reached server, or an error.
Responses == {[ok |-> TRUE, status |-> s] : s \in Statuses}
Failures == {[ok |-> FALSE, err |-> e] : e \in ConnErrors}

\* Mutant of is_success: only a server error counts as a failure.
is_not_server_error(status) == ~(500 <= status /\ status <= 599)

\* StatusCode::is_success
is_success(status) == 200 <= status /\ status <= 299

\* {:?} of an Option<StatusCode>
DebugOptStatus(status) ==
    IF status = 0 THEN "None" ELSE "Some(" \o ToString(status) \o ")"

\* {:?} of an Option<&dyn Error>
DebugOptSource(source) ==
    IF source = "None" THEN "None" ELSE "Some(" \o source \o ")"

connected_msg == "Launcher successfully connected over https"
http_msg(err) == "Could not access over https, attempting http: " \o err.msg
failed_http_msg(err) ==
    "Could not access over http, please check the server status on our discord: "
        \o err.msg

ConnectionError(err) ==
    "Error code: " \o DebugOptStatus(err.status) \o ", cause: "
        \o DebugOptSource(err.source)

StatusError(status) == "Error code: " \o ToString(status)

-----------------------------------------------------------------------------
(* serde: the derived Deserialize of Builds, FlashRuntimes, VersionManifest. *)
(* No struct and no field carries #[serde(default)]: a member that is        *)
(* missing, or is not of the field's type, fails the parse; a member no      *)
(* field is named after is skipped.                                          *)

ParseOk(v) == [ok |-> TRUE, v |-> v]
ParseErr(e) == [ok |-> FALSE, err |-> e]

\* A struct of String fields `keys` out of the JSON object o.
ParseStrings(o, keys) ==
    IF \E k \in keys \cap DOMAIN o : o[k].t # "str"
    THEN ParseErr("invalid type, expected a string")
    ELSE IF \E k \in keys : k \notin DOMAIN o
    THEN ParseErr("missing field " \o (CHOOSE k \in keys : k \notin DOMAIN o))
    ELSE ParseOk([k \in keys |-> o[k].s])

ParseBuilds(o) == ParseStrings(o, BuildKeys)
ParseFlashRuntimes(o) == ParseStrings(o, RuntimeKeys)

\* The fields of VersionManifest a JSON member of the document must fill.
ManifestKeys == TopKeys

\* serde_json::from_str::<VersionManifest>(&body)
from_str(b) ==
    IF ~b.json THEN ParseErr("expected value at line 1 column 1")
    ELSE LET d == b.doc
             builds == IF "builds" \in DOMAIN d
                       THEN ParseBuilds(d.builds) ELSE ParseOk(<<>>)
             runtimes == IF "flashRuntimes" \in DOMAIN d
                         THEN ParseFlashRuntimes(d.flashRuntimes) ELSE ParseOk(<<>>)
         IN  IF \E k \in {"currentGameVersion", "currentLauncherVersion"} \cap DOMAIN d :
                    d[k].t # "str"
             THEN ParseErr("invalid type, expected a string")
             ELSE IF ~builds.ok THEN builds
             ELSE IF ~runtimes.ok THEN runtimes
             ELSE IF "httpsWorked" \in DOMAIN d /\ d.httpsWorked.t # "bool"
             THEN ParseErr("invalid type, expected a boolean")
             ELSE IF \E k \in ManifestKeys : k \notin DOMAIN d
             THEN ParseErr("missing field "
                            \o (CHOOSE k \in ManifestKeys : k \notin DOMAIN d))
             ELSE ParseOk([ current_game_version |-> d.currentGameVersion.s,
                            current_launcher_version |-> d.currentLauncherVersion.s,
                            builds |-> builds.v,
                            flash_runtimes |-> runtimes.v,
                            https_worked |-> (d.httpsWorked.s = "true") ])

-----------------------------------------------------------------------------
(* get_version_info *)

\* The entries of `trace`.
Fetch(url) == [k |-> "fetch", v |-> url]
Answer(r) == [k |-> "answer", v |-> IF r.ok THEN ToString(r.status) ELSE r.err.msg]
Event(msg) == [k |-> "event", v |-> msg]

\* Mutant of Stamp: the flag the body carried is left in the manifest.
StampForgotten(data, worked) == data

\* Mutant of Stamp: a flag the body carried as true stays true.
StampOr(data, worked) == [data EXCEPT !.https_worked = data.https_worked \/ worked]

\* data.https_worked = https_worked
Stamp(data, worked) == [data EXCEPT !.https_worked = worked]

\* let mut data: VersionManifest = serde_json::from_str(&body).map_err(..)?;
\* data.https_worked = https_worked; Ok(data)
Parsed(b, worked) ==
    LET data == from_str(b)
    IN  IF data.ok THEN Ok(Stamp(data.v, worked)) ELSE Err(data.err)

\* if !resp.status().is_success() { return Err(..) }, then resp.text().await
CheckStatus(r) ==
    IF ~is_success(r.status)
    THEN /\ result' = Err(StatusError(r.status))
         /\ pc' = "done"
    ELSE /\ result' = result
         /\ pc' = "text"

\* Mutant of GetVersionInfo: the flag is set before the https fetch answers.
GetVersionInfoFlagSet ==
    /\ pc = "idle"
    /\ call' = [op |-> "get_version_info"]
    /\ https_worked' = TRUE
    /\ fetches' = <<HttpsUrl>>
    /\ trace' = <<Fetch(HttpsUrl)>>
    /\ pc' = "https_get"
    /\ UNCHANGED <<answers, events, resp, body, result, sel, fileVars, localVars>>

\* The call, up to the await of reqwest::get over https.
GetVersionInfo ==
    /\ pc = "idle"
    /\ call' = [op |-> "get_version_info"]
    /\ https_worked' = FALSE
    /\ fetches' = <<HttpsUrl>>
    /\ trace' = <<Fetch(HttpsUrl)>>
    /\ pc' = "https_get"
    /\ UNCHANGED <<answers, events, resp, body, result, sel, fileVars, localVars>>

\* The Ok arm of the https fetch.
HttpsOk(r) ==
    /\ events' = Append(events, connected_msg)
    /\ trace' = trace \o <<Answer(r), Event(connected_msg)>>
    /\ https_worked' = TRUE
    /\ resp' = r
    /\ CheckStatus(r)
    /\ UNCHANGED fetches

\* Mutant of HttpsErr: the failure is notified once the http fetch is under way.
HttpsErrFetchFirst(r) ==
    /\ events' = Append(events, http_msg(r.err))
    /\ fetches' = Append(fetches, HttpUrl)
    /\ trace' = trace \o <<Answer(r), Fetch(HttpUrl), Event(http_msg(r.err))>>
    /\ pc' = "http_get"
    /\ UNCHANGED <<https_worked, resp, result>>

\* The Err arm of the https fetch, up to the await of reqwest::get over http.
HttpsErr(r) ==
    /\ events' = Append(events, http_msg(r.err))
    /\ fetches' = Append(fetches, HttpUrl)
    /\ trace' = trace \o <<Answer(r), Event(http_msg(r.err)), Fetch(HttpUrl)>>
    /\ pc' = "http_get"
    /\ UNCHANGED <<https_worked, resp, result>>

\* reqwest::get("https://..") answers.
HttpsGetReturns ==
    /\ pc = "https_get"
    /\ \E r \in Responses \cup Failures :
        /\ answers' = Append(answers, r)
        /\ IF r.ok THEN HttpsOk(r) ELSE HttpsErr(r)
    /\ UNCHANGED <<body, sel, call, fileVars, localVars>>

\* Mutant of HttpErr: a failed http fetch is tried once more.
HttpErrRetry(r) ==
    IF Len(fetches) < 3
    THEN /\ events' = Append(events, failed_http_msg(r.err))
         /\ trace' = trace \o <<Answer(r), Event(failed_http_msg(r.err)),
                                 Fetch(HttpUrl)>>
         /\ UNCHANGED <<resp, result, pc>>
    ELSE /\ events' = Append(events, failed_http_msg(r.err))
         /\ trace' = trace \o <<Answer(r), Event(failed_http_msg(r.err))>>
         /\ result' = Err(ConnectionError(r.err))
         /\ pc' = "done"
         /\ UNCHANGED resp

\* Mutant of HttpErr: the error is returned without the last notification.
HttpErrSilent(r) ==
    /\ result' = Err(ConnectionError(r.err))
    /\ pc' = "done"
    /\ trace' = Append(trace, Answer(r))
    /\ UNCHANGED <<resp, events>>

\* The Err arm of the http fetch.
HttpErr(r) ==
    /\ events' = Append(events, failed_http_msg(r.err))
    /\ trace' = trace \o <<Answer(r), Event(failed_http_msg(r.err))>>
    /\ result' = Err(ConnectionError(r.err))
    /\ pc' = "done"
    /\ UNCHANGED resp

\* reqwest::get("http://..") answers.
HttpGetReturns ==
    /\ pc = "http_get"
    /\ \E r \in Responses \cup Failures :
        /\ answers' = Append(answers, r)
        /\ IF r.ok
           THEN /\ resp' = r
                /\ CheckStatus(r)
                /\ trace' = Append(trace, Answer(r))
                /\ UNCHANGED events
           ELSE HttpErr(r)
    /\ UNCHANGED <<https_worked, fetches, body, sel, call, fileVars, localVars>>

\* Mutant of TextReturns: a body got over https that does not parse makes the
\* call fall back to http.
TextReturnsRetry ==
    /\ pc = "text"
    /\ \E t \in {Ok(b) : b \in Bodies} \cup {Err(BodyReadError)} :
        /\ body' = t
        /\ IF t.kind = "Ok" /\ ~from_str(t.value).ok /\ https_worked
           THEN /\ fetches' = Append(fetches, HttpUrl)
                /\ trace' = Append(trace, Fetch(HttpUrl))
                /\ pc' = "http_get"
                /\ UNCHANGED result
           ELSE /\ result' = IF t.kind = "Err" THEN t
                                              ELSE Parsed(t.value, https_worked)
                /\ pc' = "done"
                /\ UNCHANGED <<fetches, trace>>
    /\ UNCHANGED <<https_worked, answers, events, resp, sel, call, fileVars, localVars>>

\* resp.text() answers: the body, or an error; then the parse and the return.
TextReturns ==
    /\ pc = "text"
    /\ \E t \in {Ok(b) : b \in Bodies} \cup {Err(BodyReadError)} :
        /\ body' = t
        /\ result' = IF t.kind = "Err" THEN t ELSE Parsed(t.value, https_worked)
    /\ pc' = "done"
    /\ UNCHANGED <<https_worked, fetches, answers, events, resp, sel, trace, call,
                   fileVars, localVars>>

-----------------------------------------------------------------------------
(* get_platform_flash_runtime *)

Platforms == {"windows", "darwin", "linux", "", "Windows", "LINUX", "macos"}

\* Mutant of get_platform_flash_runtime: the capitalised names are matched too.
get_platform_flash_runtime_anycase(platform, server_manifest) ==
    IF platform \in {"windows", "Windows"}
    THEN Ok(server_manifest.flash_runtimes.windows)
    ELSE IF platform = "darwin" THEN Ok(server_manifest.flash_runtimes.darwin)
    ELSE IF platform \in {"linux", "LINUX"}
    THEN Ok(server_manifest.flash_runtimes.linux)
    ELSE Err("unsupported platform: " \o platform)

get_platform_flash_runtime(platform, server_manifest) ==
    IF platform = "windows" THEN Ok(server_manifest.flash_runtimes.windows)
    ELSE IF platform = "darwin" THEN Ok(server_manifest.flash_runtimes.darwin)
    ELSE IF platform = "linux" THEN Ok(server_manifest.flash_runtimes.linux)
    ELSE Err("unsupported platform: " \o platform)

\* The caller asks for the runtime of its platform in the manifest it resolved.
SelectRuntime ==
    /\ pc = "done"
    /\ call.op = "get_version_info"
    /\ result.kind = "Ok"
    /\ sel = None
    /\ \E p \in Platforms :
        sel' = [ kind |-> "Some", platform |-> p, manifest |-> result.value,
                 ret |-> get_platform_flash_runtime(p, result.value) ]
    /\ UNCHANGED <<pc, https_worked, fetches, answers, events, resp, body, result,
                   trace, call, fileVars, localVars>>

-----------------------------------------------------------------------------
(* The build files *)

\* The Builds records the file operations are called with.
BuildsSet ==
    {from_str([json |-> TRUE, doc |-> FullDoc(v, TRUE)]).v.builds : v \in Versions}
    \cup {[stable |-> "u1", http |-> "u2", local |-> "u3"]}

\* let builds_to_check = [(&builds.stable, "stable"), (&builds.http, "http"),
\*                        (&builds.local, "local")];
builds_to_check(builds) ==
    << <<builds.stable, "stable">>, <<builds.http, "http">>, <<builds.local, "local">> >>

\* Mutant of build_path: the variant and the version change places.
build_path_version_first(build_name, version) ==
    BUILD_FOLDER \o "/bymr-" \o version \o "-" \o build_name \o ".swf"

\* format!("{}/bymr-{}-{}.swf", BUILD_FOLDER, build_name, version)
build_path(build_name, version) ==
    BUILD_FOLDER \o "/bymr-" \o build_name \o "-" \o version \o ".swf"

\* Path::new(base).join(name), for a relative name, written with the separator /
\* (where the separator is \ the path names the same file).
PathJoin(base, name) == base \o "/" \o name

\* Mutant of file_path: the file is looked for without its extension.
file_path_no_ext(build_name, version) ==
    PathJoin(BUILD_FOLDER, "bymr-" \o build_name \o "-" \o version)

\* Path::new(BUILD_FOLDER).join(format!("bymr-{}-{}.swf", build_name, version))
file_path(build_name, version) ==
    PathJoin(BUILD_FOLDER, "bymr-" \o build_name \o "-" \o version \o ".swf")

\* The files there may be: the build files of every version, and one file that
\* is named like a build file but for its extension.
FilePaths ==
    {build_path(n, v) : n \in BuildKeys, v \in Versions}
    \cup {BUILD_FOLDER \o "/bymr-stable-" \o VersionPool[1]}

\* file_manager::file_exists on the file system fsys
file_exists(fsys, path) == path \in fsys

\* The loop of do_all_swfs_exist from position n of builds_to_check on.
RECURSIVE AllExistFrom(_, _, _, _)
AllExistFrom(fsys, checks, version, n) ==
    IF n > Len(checks) THEN TRUE
    ELSE IF ~file_exists(fsys, file_path(checks[n][2], version)) THEN FALSE
    ELSE AllExistFrom(fsys, checks, version, n + 1)

\* Mutant of do_all_swfs_exist: a variant with an empty reference counts as
\* missing.
do_all_swfs_exist_nonempty(fsys, builds, version) ==
    /\ \A n \in 1..Len(builds_to_check(builds)) : builds_to_check(builds)[n][1] # ""
    /\ AllExistFrom(fsys, builds_to_check(builds), version, 1)

do_all_swfs_exist(fsys, builds, version) ==
    AllExistFrom(fsys, builds_to_check(builds), version, 1)

DoAllSwfsExist ==
    /\ pc = "idle"
    /\ \E b \in BuildsSet, v \in Versions :
        /\ call' = [op |-> "do_all_swfs_exist", builds |-> b, version |-> v]
        /\ result' = Ok(do_all_swfs_exist(fs, b, v))
    /\ pc' = "done"
    /\ UNCHANGED <<resolveVars, fileVars, localVars>>

-----------------------------------------------------------------------------
(* download_swfs *)

\* The errors download_file may fail with.
DownloadErrors == {"download failed: 404", "could not write file"}

\* Mutant of DownloadCall: every variant is downloaded from the reference of
\* the first one.
DownloadCallFirstUrl(builds, version, use_https, n) ==
    [ path |-> build_path(builds_to_check(builds)[n][2], version),
      url |-> builds_to_check(builds)[1][1],
      use_https |-> use_https ]

\* download_file(&build_path, build_url, use_https) for position n
DownloadCall(builds, version, use_https, n) ==
    [ path |-> build_path(builds_to_check(builds)[n][2], version),
      url |-> builds_to_check(builds)[n][1],
      use_https |-> use_https ]

\* What a download_file that returned r leaves of the file system: a
\* successful one has created its target.
download_file(fsys, path, r) ==
    IF r.kind = "Ok" THEN fsys \cup {path} ELSE fsys

\* The call, up to the await of the first download_file.
DownloadSwfs ==
    /\ pc = "idle"
    /\ \E b \in BuildsSet, v \in Versions, h \in BOOLEAN :
        /\ call' = [op |-> "download_swfs", builds |-> b, version |-> v,
                    use_https |-> h]
        /\ dlCalls' = <<DownloadCall(b, v, h, 1)>>
    /\ idx' = 1
    /\ pc' = "download"
    /\ fs0' = fs
    /\ UNCHANGED <<resolveVars, result, fs, dlAnswers, localVars>>

\* Mutant of AfterDownload: a failed download does not end the loop; the
\* error is returned after the last one.
AfterDownloadGoesOn(r) ==
    IF idx < Len(builds_to_check(call.builds))
    THEN /\ idx' = idx + 1
         /\ dlCalls' = Append(dlCalls, DownloadCall(call.builds, call.version,
                                                    call.use_https, idx + 1))
         /\ UNCHANGED <<result, pc>>
    ELSE /\ result' = IF \E n \in 1..Len(dlAnswers) : dlAnswers[n].kind = "Err"
                      THEN dlAnswers[CHOOSE n \in 1..Len(dlAnswers) :
                                        dlAnswers[n].kind = "Err"]
                      ELSE r
         /\ pc' = "done"
         /\ UNCHANGED <<idx, dlCalls>>

\* if let Err(err) = download_file(..).await { return Err(err); }, then the
\* next turn of the loop, or Ok(()) after the last one.
AfterDownload(r) ==
    IF r.kind = "Err"
    THEN /\ result' = r
         /\ pc' = "done"
         /\ UNCHANGED <<idx, dlCalls>>
    ELSE IF idx < Len(builds_to_check(call.builds))
    THEN /\ idx' = idx + 1
         /\ dlCalls' = Append(dlCalls, DownloadCall(call.builds, call.version,
                                                    call.use_https, idx + 1))
         /\ UNCHANGED <<result, pc>>
    ELSE /\ result' = Ok("()")
         /\ pc' = "done"
         /\ UNCHANGED <<idx, dlCalls>>

\* download_file answers.
DownloadFileReturns ==
    /\ pc = "download"
    /\ \E r \in {Ok("()")} \cup {Err(e) : e \in DownloadErrors} :
        /\ dlAnswers' = Append(dlAnswers, r)
        /\ fs' = download_file(fs, dlCalls[Len(dlCalls)].path, r)
        /\ AfterDownload(r)
    /\ UNCHANGED <<resolveVars, call, fs0, localVars>>

-----------------------------------------------------------------------------
(* download_runtimes *)

\* The file names download_runtimes is called with: the runtimes of a
\* manifest, and the empty name.
RuntimeNames == {"flashplayer.exe", "flashplayer.dmg", ""}

\* Mutant of RuntimeCall: the target path is given as the remote reference.
RuntimeCallPathAsUrl(flash_runtime_file_name, use_https) ==
    [ path |-> RUNTIME_FOLDER \o "/" \o flash_runtime_file_name,
      url |-> RUNTIME_FOLDER \o "/" \o flash_runtime_file_name,
      use_https |-> use_https ]

\* let flash_file_path = format!("{}/{}", RUNTIME_FOLDER, flash_runtime_file_name);
\* download_file(&flash_file_path, flash_runtime_file_name, use_https)
RuntimeCall(flash_runtime_file_name, use_https) ==
    [ path |-> RUNTIME_FOLDER \o "/" \o flash_runtime_file_name,
      url |-> flash_runtime_file_name,
      use_https |-> use_https ]

\* The call, up to the await of download_file.
DownloadRuntimes ==
    /\ pc = "idle"
    /\ \E f \in RuntimeNames, h \in BOOLEAN :
        /\ call' = [op |-> "download_runtimes", flash_runtime_file_name |-> f,
                    use_https |-> h]
        /\ dlCalls' = <<RuntimeCall(f, h)>>
    /\ pc' = "download_runtime"
    /\ UNCHANGED <<resolveVars, result, fs, idx, dlAnswers, fs0, localVars>>

\* download_file answers, and its value is the value of download_runtimes.
RuntimeDownloadReturns ==
    /\ pc = "download_runtime"
    /\ \E r \in {Ok("()")} \cup {Err(e) : e \in DownloadErrors} :
        /\ dlAnswers' = Append(dlAnswers, r)
        /\ fs' = download_file(fs, dlCalls[Len(dlCalls)].path, r)
        /\ result' = r
    /\ pc' = "done"
    /\ UNCHANGED <<resolveVars, call, idx, dlCalls, fs0, localVars>>

-----------------------------------------------------------------------------
(* local_files_status *)

\* Mutant of Folders: the sub-directories are asked for before their parent.
FoldersParentLast == <<BUILD_FOLDER, RUNTIME_FOLDER, DOWNLOADS_FOLDER>>

\* The folders local_files_status asks for, in the order of its statements.
Folders == <<DOWNLOADS_FOLDER, BUILD_FOLDER, RUNTIME_FOLDER>>

EnsureCall(path) == [fn |-> "ensure_folder_exists", path |-> path]
LocalVersionsCall == [fn |-> "get_local_versions", path |-> ""]

\* file_manager::ensure_folder_exists(path) where the directories are ds: what
\* it may return, and the directories it leaves. A directory there is stays,
\* and the call succeeds or reports that it exists already; one that is not
\* there is created, or the creation fails.
ensure_folder_exists(ds, path) ==
    IF path \in ds
    THEN { [ret |-> Ok("()"), dirs |-> ds],
           [ret |-> Err("already exists"), dirs |-> ds] }
    ELSE { [ret |-> Ok("()"), dirs |-> ds \cup {path}],
           [ret |-> Err("permission denied"), dirs |-> ds] }

\* LocalVersionManifest::default()
DefaultLocalManifest ==
    [ current_game_version |-> "",
      current_launcher_version |-> "",
      builds |-> [stable |-> "", http |-> "", local |-> ""],
      flash_runtimes |-> [windows |-> "", darwin |-> "", linux |-> ""] ]

\* file_manager::get_local_versions(): what it may return.
get_local_versions ==
    { <<FALSE, DefaultLocalManifest, "no local versions found">>,
      <<FALSE, DefaultLocalManifest, "could not read the local versions">>,
      <<TRUE, [DefaultLocalManifest EXCEPT !.current_game_version = VersionPool[1],
                                           !.current_launcher_version = "0.3.1"],
        "">> }

\* The call, up to the first ensure_folder_exists.
LocalFilesStatus ==
    /\ pc = "idle"
    /\ call' = [op |-> "local_files_status"]
    /\ dirs0' = dirs
    /\ sysCalls' = <<EnsureCall(Folders[1])>>
    /\ pc' = "ensure"
    /\ UNCHANGED <<resolveVars, fileVars, result, dirs, sysAnswers>>

\* let _ = ensure_folder_exists(..): its value is dropped, whatever it is;
\* then the next statement.
AfterEnsure ==
    IF Len(sysCalls) < Len(Folders)
    THEN /\ sysCalls' = Append(sysCalls, EnsureCall(Folders[Len(sysCalls) + 1]))
         /\ pc' = "ensure"
    ELSE /\ sysCalls' = Append(sysCalls, LocalVersionsCall)
         /\ pc' = "local_versions"

\* ensure_folder_exists returns.
EnsureFolderReturns ==
    /\ pc = "ensure"
    /\ \E o \in ensure_folder_exists(dirs, sysCalls[Len(sysCalls)].path) :
        /\ sysAnswers' = Append(sysAnswers, o.ret)
        /\ dirs' = o.dirs
    /\ AfterEnsure
    /\ UNCHANGED <<resolveVars, fileVars, result, call, dirs0>>

\* return get_local_versions();
GetLocalVersionsReturns ==
    /\ pc = "local_versions"
    /\ \E t \in get_local_versions :
        /\ sysAnswers' = Append(sysAnswers, [kind |-> "Tuple", value |-> t])
        /\ result' = [kind |-> "Tuple", value |-> t]
    /\ pc' = "done"
    /\ UNCHANGED <<resolveVars, fileVars, call, dirs, dirs0, sysCalls>>

-----------------------------------------------------------------------------
(* The caller *)

\* The caller has the value and is free for the next operation.
Return ==
    /\ pc = "done"
    /\ pc' = "idle"
    /\ call' = None
    /\ https_worked' = FALSE
    /\ fetches' = <<>>
    /\ answers' = <<>>
    /\ events' = <<>>
    /\ resp' = None
    /\ body' = None
    /\ result' = None
    /\ sel' = None
    /\ idx' = 0
    /\ dlCalls' = <<>>
    /\ dlAnswers' = <<>>
    /\ trace' = <<>>
    /\ fs0' = {}
    /\ dirs0' = {}
    /\ sysCalls' = <<>>
    /\ sysAnswers' = <<>>
    /\ UNCHANGED <<fs, dirs>>

Start ==
    /\ pc = "idle"
    /\ call = None
    /\ https_worked = FALSE
    /\ fetches = <<>>
    /\ answers = <<>>
    /\ events = <<>>
    /\ resp = None
    /\ body = None
    /\ result = None
    /\ sel = None
    /\ idx = 0
    /\ dlCalls = <<>>
    /\ dlAnswers = <<>>
    /\ trace = <<>>
    /\ fs0 = {}
    /\ dirs0 = {}
    /\ sysCalls = <<>>
    /\ sysAnswers = <<>>

\* Resolution of the manifest and selection of the runtime: no file is read.
Init == Start /\ fs = {} /\ dirs = {}

Next ==
    \/ GetVersionInfo
    \/ HttpsGetReturns
    \/ HttpGetReturns
    \/ TextReturns
    \/ SelectRuntime
    \/ Return

Spec == Init /\ [][Next]_vars

\* The same, where reqwest answers every fetch and every read of a body.
SpecLive ==
    /\ Spec
    /\ WF_vars(HttpsGetReturns)
    /\ WF_vars(HttpGetReturns)
    /\ WF_vars(TextReturns)

\* The operations on the build files, from any state of the file system.
InitFiles == Start /\ fs \in SUBSET FilePaths /\ dirs = {}

NextFiles ==
    \/ DoAllSwfsExist
    \/ DownloadSwfs
    \/ DownloadFileReturns
    \/ Return

SpecFiles == InitFiles /\ [][NextFiles]_vars

\* The local layout and the runtime download, from any set of directories.
InitLocal == Start /\ fs = {} /\ dirs \in SUBSET {Folders[n] : n \in 1..Len(Folders)}

NextLocal ==
    \/ LocalFilesStatus
    \/ EnsureFolderReturns
    \/ GetLocalVersionsReturns
    \/ DownloadRuntimes
    \/ RuntimeDownloadReturns
    \/ Return

SpecLocal == InitLocal /\ [][NextLocal]_vars

-----------------------------------------------------------------------------
(* Properties of get_version_info *)

Running(op) == pc # "idle" /\ call.op = op
Returned(op) == pc = "done" /\ call.op = op

\* The n-th fetch of the running call was answered with a response of status 2xx.
Answered2xx(n) ==
    /\ Len(answers) >= n
    /\ answers[n].ok
    /\ answers[n].status \in 200..299

\* The n-th fetch of the running call failed at the connection level.
ConnFailed(n) == Len(answers) >= n /\ ~answers[n].ok

\* The body was read and the manifest schema accepts it.
WellFormedBody == body.kind = "Ok" /\ from_str(body.value).ok

\* The body was read and the manifest schema rejects it.
MalformedBody == body.kind = "Ok" /\ ~from_str(body.value).ok

InsecureFetched == \E n \in 1..Len(fetches) : fetches[n] = HttpUrl

\* C1: when the https fetch of a call is answered with a 2xx response, the
\* call issues no http fetch at any point, and once the well-formed body of
\* that response is read the call returns a manifest whose https_worked is
\* true.
C1_SecureSuccess ==
    (Running("get_version_info") /\ Answered2xx(1)) =>
        /\ fetches = <<HttpsUrl>>
        /\ ~InsecureFetched
        /\ WellFormedBody =>
            /\ pc = "done"
            /\ result.kind = "Ok"
            /\ result.value.https_worked = TRUE

\* C1 happens: a call returned after a 200 over https whose body said
\* "httpsWorked": false.
C1_Witness ==
    /\ Returned("get_version_info")
    /\ Answered2xx(1)
    /\ WellFormedBody
    /\ body.value.doc.httpsWorked.s = "false"
    /\ result.kind = "Ok"

\* C2: when the https fetch fails at the connection level and the http fetch
\* is answered with a 2xx response and a well-formed body, the call returns a
\* manifest whose https_worked is false.
C2_InsecureFallback ==
    (Running("get_version_info") /\ ConnFailed(1) /\ Answered2xx(2)
        /\ WellFormedBody) =>
        /\ pc = "done"
        /\ result.kind = "Ok"
        /\ result.value.https_worked = FALSE

\* C2 happens: a call returned a manifest got over http.
C2_Witness ==
    /\ Returned("get_version_info")
    /\ ConnFailed(1)
    /\ Answered2xx(2)
    /\ WellFormedBody
    /\ fetches = <<HttpsUrl, HttpUrl>>
    /\ result.kind = "Ok"

\* C3: when both the https and the http fetch fail at the connection level,
\* the call has returned an error, not a manifest, and the last notification
\* in the event sink is the final failure notification of the http error.
C3_BothFail ==
    (Running("get_version_info") /\ ConnFailed(1) /\ ConnFailed(2)) =>
        /\ pc = "done"
        /\ result.kind = "Err"
        /\ result.error = "Error code: None, cause: "
                            \o (IF answers[2].err.source = "None" THEN "None"
                                ELSE "Some(" \o answers[2].err.source \o ")")
        /\ Len(events) = 2
        /\ events[2] =
            "Could not access over http, please check the server status on our discord: "
                \o answers[2].err.msg
        /\ body = None

\* C3 happens: a call returned after two connection failures.
C3_Witness ==
    /\ Returned("get_version_info")
    /\ ConnFailed(1)
    /\ ConnFailed(2)
    /\ result.kind = "Err"

\* C4: once a fetch of the call is answered with a response whose status is
\* not 2xx, the call has returned the error carrying that status and has
\* issued no fetch after that one; and an http fetch is only ever issued
\* after a connection-level failure of the https fetch.
C4_StatusFailure ==
    Running("get_version_info") =>
        /\ \A n \in 1..Len(answers) :
            (answers[n].ok /\ answers[n].status \notin 200..299) =>
                /\ pc = "done"
                /\ result = Err("Error code: " \o ToString(answers[n].status))
                /\ Len(fetches) = n
                /\ body = None
        /\ InsecureFetched => ConnFailed(1)

\* C4 happens: a call returned after a 404 over https.
C4_Witness ==
    /\ Returned("get_version_info")
    /\ answers = <<[ok |-> TRUE, status |-> 404]>>
    /\ fetches = <<HttpsUrl>>
    /\ result.kind = "Err"

\* C5: when the body of a 2xx response does not parse as a manifest, the call
\* has returned the parse error, and every fetch it issued had been answered
\* before the body was read: none was issued after the parse failure, over
\* either transport.
C5_ParseFailure ==
    (Running("get_version_info") /\ MalformedBody) =>
        /\ pc = "done"
        /\ result = Err(from_str(body.value).err)
        /\ Len(fetches) = Len(answers)
        /\ answers[Len(answers)].ok
        /\ \A n \in 1..(Len(answers) - 1) : ~answers[n].ok

\* C5 happens: a call returned after a body over https that is no JSON.
C5_Witness ==
    /\ Returned("get_version_info")
    /\ Answered2xx(1)
    /\ body = Ok(NotJson)
    /\ result.kind = "Err"

\* The JSON object o has exactly the members `keys`, all of them strings.
AllStrings(o, keys) == DOMAIN o = keys /\ \A k \in keys : o[k].t = "str"

\* C6: a 2xx body that is a JSON document with exactly the members
\* currentGameVersion, currentLauncherVersion, builds{stable,http,local} and
\* flashRuntimes{windows,darwin,linux} makes the call return a manifest that
\* carries those values.
C6_DocumentAccepted ==
    (/\ Returned("get_version_info")
     /\ body.kind = "Ok"
     /\ body.value.json
     /\ DOMAIN body.value.doc = {"currentGameVersion", "currentLauncherVersion",
                                 "builds", "flashRuntimes"}
     /\ body.value.doc.currentGameVersion.t = "str"
     /\ body.value.doc.currentLauncherVersion.t = "str"
     /\ AllStrings(body.value.doc.builds, {"stable", "http", "local"})
     /\ AllStrings(body.value.doc.flashRuntimes, {"windows", "darwin", "linux"})) =>
        /\ result.kind = "Ok"
        /\ result.value.current_game_version = body.value.doc.currentGameVersion.s
        /\ result.value.current_launcher_version
               = body.value.doc.currentLauncherVersion.s
        /\ \A k \in {"stable", "http", "local"} :
               result.value.builds[k] = body.value.doc.builds[k].s
        /\ \A k \in {"windows", "darwin", "linux"} :
               result.value.flash_runtimes[k] = body.value.doc.flashRuntimes[k].s

\* The JSON object o has members among `keys` only, all of them strings.
SomeStrings(o, keys) == DOMAIN o \subseteq keys /\ \A k \in DOMAIN o : o[k].t = "str"

\* The field k of a record read from the JSON object o when an absent member
\* stands for the empty string.
OrEmpty(o, k) == IF k \in DOMAIN o THEN o[k].s ELSE ""

\* C7: the builds and flash_runtimes of a returned manifest have all three
\* fields; a 2xx body that has every member of the document, httpsWorked
\* too, but leaves out members of builds or of flashRuntimes makes the call
\* return a manifest where the fields left out are the empty string.
C7_AbsentFieldIsEmpty ==
    (/\ Returned("get_version_info")
     /\ body.kind = "Ok"
     /\ body.value.json
     /\ DOMAIN body.value.doc = {"currentGameVersion", "currentLauncherVersion",
                                 "builds", "flashRuntimes", "httpsWorked"}
     /\ body.value.doc.currentGameVersion.t = "str"
     /\ body.value.doc.currentLauncherVersion.t = "str"
     /\ body.value.doc.httpsWorked.t = "bool"
     /\ SomeStrings(body.value.doc.builds, {"stable", "http", "local"})
     /\ SomeStrings(body.value.doc.flashRuntimes, {"windows", "darwin", "linux"})) =>
        /\ result.kind = "Ok"
        /\ DOMAIN result.value.builds = {"stable", "http", "local"}
        /\ DOMAIN result.value.flash_runtimes = {"windows", "darwin", "linux"}
        /\ \A k \in {"stable", "http", "local"} :
               result.value.builds[k] = OrEmpty(body.value.doc.builds, k)
        /\ \A k \in {"windows", "darwin", "linux"} :
               result.value.flash_runtimes[k]
                   = OrEmpty(body.value.doc.flashRuntimes, k)

-----------------------------------------------------------------------------
(* Properties of get_platform_flash_runtime *)

\* C10: get_platform_flash_runtime returns the windows, darwin or linux field
\* of the manifest's flash_runtimes for the platform of that name, and the
\* error "unsupported platform: <platform>" for every other platform.
C10_PlatformRuntime ==
    sel.kind = "Some" =>
        /\ sel.platform = "windows" =>
               sel.ret = Ok(sel.manifest.flash_runtimes.windows)
        /\ sel.platform = "darwin" =>
               sel.ret = Ok(sel.manifest.flash_runtimes.darwin)
        /\ sel.platform = "linux" =>
               sel.ret = Ok(sel.manifest.flash_runtimes.linux)
        /\ sel.platform \notin {"windows", "darwin", "linux"} =>
               sel.ret = Err("unsupported platform: " \o sel.platform)

\* C10 happens: the runtime was asked for a platform written in capitals, in
\* a manifest whose three runtimes differ.
C10_Witness ==
    /\ sel.kind = "Some"
    /\ sel.platform = "LINUX"
    /\ sel.ret.kind = "Err"
    /\ Cardinality({sel.manifest.flash_runtimes[k] : k \in RuntimeKeys}) = 3

-----------------------------------------------------------------------------
(* Properties of the operations on the build files *)

\* The path of the build file of a variant, written out.
ExpectedPath(variant, version) ==
    "bymr-downloads/swfs/bymr-" \o variant \o "-" \o version \o ".swf"

VariantOrder == <<"stable", "http", "local">>

\* C8: download_swfs calls download_file for stable, http, local in that
\* order, one after the other, and a call that fails is the last one: the
\* operation has returned that call's error and no later variant is
\* downloaded.
C8_FailFast ==
    Running("download_swfs") =>
        /\ Len(dlCalls) <= 3
        /\ \A n \in 1..Len(dlCalls) :
               dlCalls[n].path = ExpectedPath(VariantOrder[n], call.version)
        /\ Len(dlAnswers) \in {Len(dlCalls) - 1, Len(dlCalls)}
        /\ \A n \in 1..Len(dlAnswers) :
               dlAnswers[n].kind = "Err" =>
                   /\ Len(dlCalls) = n
                   /\ Len(dlAnswers) = n
                   /\ pc = "done"
                   /\ result = dlAnswers[n]

\* C8 happens: the download of http failed after the one of stable succeeded.
C8_Witness ==
    /\ Returned("download_swfs")
    /\ Len(dlAnswers) = 2
    /\ dlAnswers[1].kind = "Ok"
    /\ dlAnswers[2].kind = "Err"
    /\ dlCalls[1].path = ExpectedPath("stable", call.version)
    /\ dlCalls[2].path = ExpectedPath("http", call.version)

\* The file system with the presence of the file f flipped.
Flip(fsys, f) == IF f \in fsys THEN fsys \ {f} ELSE fsys \cup {f}

ThreeFiles(version) == {ExpectedPath(k, version) : k \in {"stable", "http", "local"}}

\* C9: do_all_swfs_exist returns true exactly when bymr-stable-<version>.swf,
\* bymr-http-<version>.swf and bymr-local-<version>.swf are all in
\* bymr-downloads/swfs, and with two of them present the answer on the file
\* system that differs in the third one is the opposite.
C9_AllExist ==
    Returned("do_all_swfs_exist") =>
        /\ result.value = (ThreeFiles(call.version) \subseteq fs)
        /\ \A f \in ThreeFiles(call.version) :
               (ThreeFiles(call.version) \ {f}) \subseteq fs =>
                   do_all_swfs_exist(Flip(fs, f), call.builds, call.version)
                       = ~result.value

\* C9 happens: the answer for version 1.2.3 is true on a file system holding
\* the three files of the example.
C9_Witness ==
    /\ Returned("do_all_swfs_exist")
    /\ call.version = "1.2.3"
    /\ {"bymr-downloads/swfs/bymr-stable-1.2.3.swf",
        "bymr-downloads/swfs/bymr-http-1.2.3.swf",
        "bymr-downloads/swfs/bymr-local-1.2.3.swf"} \subseteq fs
    /\ result.value = TRUE

\* C13: in every run of download_swfs the n-th call of download_file is for
\* the n-th of stable, http, local, with the target path
\* bymr-downloads/swfs/bymr-<variant>-<version>.swf, that variant's own
\* reference and the caller's use_https; no variant is downloaded twice; the
\* operation returns Ok exactly when three calls succeeded, and otherwise
\* the error of the call that failed.
C13_DownloadCalls ==
    Running("download_swfs") =>
        /\ Len(dlCalls) <= 3
        /\ \A n \in 1..Len(dlCalls) :
               dlCalls[n] = [ path |-> ExpectedPath(VariantOrder[n], call.version),
                              url |-> call.builds[VariantOrder[n]],
                              use_https |-> call.use_https ]
        /\ \A n, k \in 1..Len(dlCalls) : dlCalls[n].path = dlCalls[k].path => n = k
        /\ pc = "done" =>
            /\ result.kind \in {"Ok", "Err"}
            /\ result.kind = "Ok" <=>
                   (Len(dlAnswers) = 3 /\ \A n \in 1..3 : dlAnswers[n].kind = "Ok")
            /\ result.kind = "Err" =>
                   /\ dlAnswers[Len(dlAnswers)].kind = "Err"
                   /\ result.error = dlAnswers[Len(dlAnswers)].error

\* C13 happens: the third download failed, over http, with references that
\* all differ.
C13_Witness ==
    /\ Returned("download_swfs")
    /\ ~call.use_https
    /\ call.builds = [stable |-> "u1", http |-> "u2", local |-> "u3"]
    /\ Len(dlCalls) = 3
    /\ dlAnswers[3] = Err("could not write file")
    /\ result = Err("could not write file")

-----------------------------------------------------------------------------
(* Properties of local_files_status and download_runtimes *)

\* C11: when ensure_folder_exists fails during local_files_status for another
\* reason than the directory existing already, the failure reaches the
\* caller: local_files_status returns an error, or a diagnostic that is the
\* failure.
C11_FailureSurfaces ==
    Returned("local_files_status") =>
        \A n \in 1..3 :
            (sysAnswers[n].kind = "Err" /\ sysAnswers[n].error # "already exists") =>
                \/ result.kind = "Err"
                \/ result.value[3] = sysAnswers[n].error

\* C12: download_runtimes calls download_file once, with the target path
\* bymr-downloads/runtimes/<name>, the same name as the remote reference and
\* the caller's use_https, and returns what that call returned.
C12_RuntimeDownload ==
    Running("download_runtimes") =>
        /\ dlCalls = << [ path |-> "bymr-downloads/runtimes/"
                                      \o call.flash_runtime_file_name,
                          url |-> call.flash_runtime_file_name,
                          use_https |-> call.use_https ] >>
        /\ pc # "done" => dlAnswers = <<>>
        /\ pc = "done" => dlAnswers = <<result>>

\* C12 happens: the download of flashplayer.exe over http failed.
C12_Witness ==
    /\ Returned("download_runtimes")
    /\ call.flash_runtime_file_name = "flashplayer.exe"
    /\ ~call.use_https
    /\ dlCalls[1].path = "bymr-downloads/runtimes/flashplayer.exe"
    /\ result = Err("download failed: 404")

ExpectedSysCalls ==
    << [fn |-> "ensure_folder_exists", path |-> "bymr-downloads"],
       [fn |-> "ensure_folder_exists", path |-> "bymr-downloads/swfs"],
       [fn |-> "ensure_folder_exists", path |-> "bymr-downloads/runtimes"],
       [fn |-> "get_local_versions", path |-> ""] >>

\* C16: local_files_status asks for bymr-downloads, bymr-downloads/swfs and
\* bymr-downloads/runtimes in that order, then reads the local versions
\* once, and returns the triple it read; called when the three directories
\* are there, it leaves the directories as they were.
C16_LocalFilesStatus ==
    Running("local_files_status") =>
        /\ Len(sysCalls) <= 4
        /\ \A n \in 1..Len(sysCalls) : sysCalls[n] = ExpectedSysCalls[n]
        /\ pc = "done" =>
            /\ sysCalls = ExpectedSysCalls
            /\ Len(sysAnswers) = 4
            /\ result = sysAnswers[4]
            /\ result.kind = "Tuple"
            /\ {"bymr-downloads", "bymr-downloads/swfs", "bymr-downloads/runtimes"}
                   \subseteq dirs0 => dirs = dirs0

\* C16 happens: local_files_status returned the local versions it found,
\* called with the three directories there.
C16_Witness ==
    /\ Returned("local_files_status")
    /\ Cardinality(dirs0) = 3
    /\ result.value[1] = TRUE

-----------------------------------------------------------------------------
(* Properties of the sequence of fetches and notifications *)

SecureSuccessMsg == "Launcher successfully connected over https"
SecureFailureMsg(n) ==
    "Could not access over https, attempting http: " \o answers[n].err.msg
FinalFailureMsg(n) ==
    "Could not access over http, please check the server status on our discord: "
        \o answers[n].err.msg

\* What the entries of trace are, in order.
Kinds == [n \in 1..Len(trace) |-> trace[n].k]

\* The notifications in trace, in order.
Notified == SelectSeq(trace, LAMBDA e : e.k = "event")

\* C14: the notifications of a call follow its fetches. There is none before
\* the https fetch is answered; a success of it is followed by the connected
\* notification and nothing else; a failure of it is followed by the
\* notification of that failure, and only then by the http fetch; a success
\* of the http fetch adds no notification, a failure of it adds the final
\* one. The notifications of a call that returned are [secure-success],
\* [secure-failure] or [secure-failure, final-failure].
C14_Notifications ==
    Running("get_version_info") =>
        /\ events = [n \in 1..Len(Notified) |-> Notified[n].v]
        /\ Len(answers) = 0 => Kinds = <<"fetch">>
        /\ (Len(answers) >= 1 /\ answers[1].ok) =>
            /\ Kinds = <<"fetch", "answer", "event">>
            /\ events = <<SecureSuccessMsg>>
        /\ (Len(answers) = 1 /\ ~answers[1].ok) =>
            /\ Kinds = <<"fetch", "answer", "event", "fetch">>
            /\ events = <<SecureFailureMsg(1)>>
        /\ (Len(answers) = 2 /\ answers[2].ok) =>
            /\ Kinds = <<"fetch", "answer", "event", "fetch", "answer">>
            /\ events = <<SecureFailureMsg(1)>>
        /\ (Len(answers) = 2 /\ ~answers[2].ok) =>
            /\ Kinds = <<"fetch", "answer", "event", "fetch", "answer", "event">>
            /\ events = <<SecureFailureMsg(1), FinalFailureMsg(2)>>
        /\ pc = "done" =>
            \/ events = <<SecureSuccessMsg>>
            \/ events = <<SecureFailureMsg(1)>>
            \/ events = <<SecureFailureMsg(1), FinalFailureMsg(2)>>

\* C14 happens: a manifest came over http, with the one notification of the
\* https failure.
C14_Witness ==
    /\ Returned("get_version_info")
    /\ result.kind = "Ok"
    /\ Len(answers) = 2
    /\ Len(events) = 1

\* C15: the https_worked of a returned manifest is true exactly when the
\* response came over https, whatever the httpsWorked of the body says, the
\* rest of the manifest being what the body parses to; and the returned
\* manifest is not written after the return.
C15_FlagStamped ==
    /\ [](Returned("get_version_info") /\ result.kind = "Ok" =>
            /\ result.value.https_worked = (fetches = <<HttpsUrl>> /\ answers[1].ok)
            /\ result.value.https_worked = ~InsecureFetched
            /\ result.value = [from_str(body.value).v EXCEPT
                                  !.https_worked = ~InsecureFetched])
    /\ [][(Returned("get_version_info") /\ result.kind = "Ok") =>
              (result' = result \/ pc' = "idle")]_vars

\* C15 happens: a manifest came over http from a body saying
\* "httpsWorked": true, and the runtime was selected in it afterwards.
C15_Witness ==
    /\ Returned("get_version_info")
    /\ result.kind = "Ok"
    /\ InsecureFetched
    /\ body.value.doc.httpsWorked.s = "true"
    /\ result.value.https_worked = FALSE
    /\ sel.kind = "Some"

\* C19: a call of get_version_info issues at most two fetches, the https one
\* first and the http one only after a connection-level failure of the
\* https one, each at most once; and, reqwest answering, the call returns a
\* manifest or an error.
C19_TwoFetches ==
    /\ [](Running("get_version_info") =>
            /\ Len(fetches) \in {1, 2}
            /\ fetches[1] = HttpsUrl
            /\ Len(fetches) = 2 =>
                /\ fetches[2] = HttpUrl
                /\ Len(answers) >= 1
                /\ ~answers[1].ok
            /\ Len(answers) <= Len(fetches)
            /\ pc = "done" => result.kind \in {"Ok", "Err"})
    /\ (Running("get_version_info") ~> Returned("get_version_info"))

\* C19 happens: a call returned a manifest after two fetches.
C19_Witness ==
    /\ Returned("get_version_info")
    /\ fetches = <<HttpsUrl, HttpUrl>>
    /\ result.kind = "Ok"

-----------------------------------------------------------------------------
(* Properties of do_all_swfs_exist with download_swfs *)

\* C17: do_all_swfs_exist answers the same for every Builds record, the
\* version and the files being the same, the empty version and empty
\* references included; and a call of it downloads nothing, creates no
\* directory, notifies nothing and leaves the files as they are.
C17_PurePredicate ==
    /\ [](Returned("do_all_swfs_exist") =>
            /\ \A b \in BuildsSet :
                   do_all_swfs_exist(fs, b, call.version) = result.value
            /\ result.value = (ThreeFiles(call.version) \subseteq fs))
    /\ [][(pc = "idle" /\ pc' = "done" /\ call'.op = "do_all_swfs_exist") =>
              UNCHANGED <<fs, dirs, dlCalls, dlAnswers, sysCalls, sysAnswers,
                          events, fetches, trace>>]_vars

\* C17 happens: the answer is true for the empty version and a Builds record
\* with an empty reference.
C17_Witness ==
    /\ Returned("do_all_swfs_exist")
    /\ call.version = ""
    /\ call.builds.local = ""
    /\ result.value = TRUE

\* The targets of the variants before the k-th.
TargetsBefore(k, version) == {ExpectedPath(VariantOrder[n], version) : n \in 1..(k - 1)}

====
